---- MODULE Spec2Model ----
(***************************************************************************)
(* Model of the strategy-orchestration core:                               *)
(*   MasterAgent.execute_strategy          (src/master_agent.py)           *)
(*   MonetizationOptimizer.optimize_revenue (src/monetization_optimizer.py)*)
(*   RevenueAnalytics.analyze_revenue_trends (src/revenue_analytics.py)    *)
(* One caller issues one public operation at a time; every operation is a  *)
(* synchronous single pass that blocks on its collaborators.  A call to a  *)
(* collaborator or strategy handler either returns a value or raises an    *)
(* exception derived from Exception (the class the except clauses catch).  *)
(***************************************************************************)
EXTENDS Integers, Sequences, FiniteSets, TLC

\* ---- bounds ----
MaxVal == 2
MaxClock == 2
NumResults == 2

\* ---- value universes ----
StrategyIds == {"discount_v1", "missing_id"}
Handlers == {"handlerA", "handlerB"}
Keys == {"revenue_target", "time_frame", "timestamp", "system_id"}
Values == {"v" \o ToString(i) : i \in 1..MaxVal}
Clock == 1..MaxClock
Results == {"r" \o ToString(i) : i \in 1..NumResults}

\* Every mapping with string keys in Keys and values in Values (a dict payload).
Payloads == UNION {[D -> Values] : D \in SUBSET Keys}

\* What the pricing collaborator may hand back: any mapping over these keys.
ParamKeys == {"price"}
OptimizedParams == UNION {[D -> Values] : D \in SUBSET ParamKeys}

\* ---- error kinds ----
StrategyNotFoundError == "StrategyNotFoundError"
IntegrationError == "IntegrationError"
InvalidPayloadError == "InvalidPayloadError"
AnalysisError == "AnalysisError"
DuplicateStrategyError == "DuplicateStrategyError"
AttributeError == "AttributeError"

\* Raw financial data handed to analyze_revenue_trends.
RawData == UNION {[D -> Values] : D \in SUBSET {"revenue"}}

\* Exception types a handler or collaborator may raise on its own.
RawErrors == {"RuntimeError", StrategyNotFoundError}

Raised(kind, message) == [status |-> "raised", kind |-> kind, message |-> message]
NoOutcome == [status |-> "none"]

VARIABLES
    strategies,      \* MasterAgent.strategies: id -> [executor |-> handler]
    master_agent,    \* MonetizationOptimizer.master_agent: "None" or "MasterAgent"
    op,              \* public operation the caller has in flight
    pc,              \* position of the running call
    ex_state,        \* execute_strategy: "none" | "pending" | "success" | "failed"
    ex_strategy_id,
    ex_payload,
    ex_now,          \* clock reading taken by _get_current_timestamp
    ex_context,
    ex_invocations,  \* handler invocations made by this call, in order
    ex_outcome,      \* what execute_strategy hands to its caller
    opt_state,       \* optimize_revenue: "none" | "pending" | "success" | "failed"
    opt_strategy_id,
    opt_payload,
    optimized_params,\* value returned by predict_optimal_prices
    opt_events,      \* steps taken by this optimize_revenue call, in order
    opt_outcome,
    an_state,        \* analyze_revenue_trends: "none" | "pending" | "success" | "failed"
    an_data,
    an_events,
    an_outcome,
    logged           \* logging.error records of the call in flight

exVars == <<ex_state, ex_strategy_id, ex_payload, ex_now, ex_context, ex_invocations, ex_outcome>>
optVars == <<opt_state, opt_strategy_id, opt_payload, optimized_params, opt_events, opt_outcome>>
anVars == <<an_state, an_data, an_events, an_outcome>>
vars == <<strategies, master_agent, op, pc, exVars, optVars, anVars, logged>>

EmptyMap == [k \in {} |-> "v1"]

\* {**a, **b}
Merge(a, b) ==
    [k \in DOMAIN a \cup DOMAIN b |-> IF k \in DOMAIN b THEN b[k] ELSE a[k]]

isoformat(now) == "T" \o ToString(now)

_get_system_id == "default-system-id"

_prepare_context_payload_loses(payload, now) ==
    Merge(payload, [timestamp |-> isoformat(now), system_id |-> _get_system_id])

_prepare_context(payload, now) ==
    Merge([timestamp |-> isoformat(now), system_id |-> _get_system_id], payload)

_strategy_exists(strategy_id) == strategy_id \in DOMAIN strategies

executor_any(strategy_id) ==
    CHOOSE h \in Handlers : h # strategies[strategy_id].executor

executor(strategy_id) == strategies[strategy_id].executor

execute_strategy_reraise(strategy_id, e) == e

\* except Exception as e: logging.error(...); raise IntegrationError(...)
execute_strategy_except(strategy_id, e) ==
    Raised(IntegrationError, <<"Failed to execute strategy", strategy_id>>)

_is_valid_payload(payload) ==
    \A field \in {"revenue_target", "time_frame"} : field \in DOMAIN payload

optimize_revenue_reraise(e) == e

optimize_revenue_except(e) ==
    Raised(IntegrationError, <<"Failed to optimize revenue streams">>)

dispatch_payload(strategy_id, payload, params) == <<strategy_id, payload>>

\* arguments of self.master_agent.execute_strategy(strategy_id, optimized_params)
dispatch_args(strategy_id, payload, params) == <<strategy_id, params>>

analyze_reraise(e) == e

analyze_except(e) ==
    Raised(AnalysisError, <<"Failed to generate revenue analysis">>)

_generate_insights(metrics) ==
    [trend |-> "increasing", recommendation |-> "Increase pricing during peak periods"]

Init ==
    /\ strategies = EmptyMap
    /\ master_agent = "None"
    /\ op = "none"
    /\ pc = "idle"
    /\ ex_state = "none"
    /\ ex_strategy_id = "none"
    /\ ex_payload = EmptyMap
    /\ ex_now = 0
    /\ ex_context = EmptyMap
    /\ ex_invocations = <<>>
    /\ ex_outcome = NoOutcome
    /\ opt_state = "none"
    /\ opt_strategy_id = "none"
    /\ opt_payload = EmptyMap
    /\ optimized_params = EmptyMap
    /\ opt_events = <<>>
    /\ opt_outcome = NoOutcome
    /\ an_state = "none"
    /\ an_data = EmptyMap
    /\ an_events = <<>>
    /\ an_outcome = NoOutcome
    /\ logged = <<>>

\* ---- registry and wiring (configuration time) ----

register(strategy_id, handler) ==
    /\ pc = "idle"
    /\ strategy_id \notin DOMAIN strategies
    /\ strategies' = [k \in DOMAIN strategies \cup {strategy_id} |->
                        IF k = strategy_id THEN [executor |-> handler] ELSE strategies[k]]
    /\ UNCHANGED <<master_agent, op, pc, exVars, optVars, anVars, logged>>

attach_master_agent ==
    /\ pc = "idle"
    /\ master_agent = "None"
    /\ master_agent' = "MasterAgent"
    /\ UNCHANGED <<strategies, op, pc, exVars, optVars, anVars, logged>>

\* ---- MasterAgent.execute_strategy ----

\* entry of execute_strategy(strategy_id, payload): the call is pending
execute_strategy_enter(strategy_id, payload) ==
    /\ ex_state' = "pending"
    /\ ex_strategy_id' = strategy_id
    /\ ex_payload' = payload
    /\ ex_now' = 0
    /\ ex_context' = EmptyMap
    /\ ex_invocations' = <<>>
    /\ ex_outcome' = NoOutcome

execute_strategy_call(strategy_id, payload) ==
    /\ pc = "idle"
    /\ op' = "execute"
    /\ pc' = "exec_validate"
    /\ execute_strategy_enter(strategy_id, payload)
    /\ logged' = <<>>
    /\ UNCHANGED <<strategies, master_agent, optVars, anVars>>

\* lines 39-43: existence check, then context preparation
execute_strategy_validate ==
    /\ pc = "exec_validate"
    /\ IF ~_strategy_exists(ex_strategy_id)
       THEN LET e == Raised(StrategyNotFoundError, <<"Strategy not found", ex_strategy_id>>)
            IN  /\ logged' = Append(logged, <<"Error executing strategy", ex_strategy_id, e.kind>>)
                /\ ex_outcome' = execute_strategy_except(ex_strategy_id, e)
                /\ ex_state' = "failed"
                /\ pc' = "exec_done"
                /\ UNCHANGED <<ex_now, ex_context>>
       ELSE \E now \in Clock :
                /\ ex_now' = now
                /\ ex_context' = _prepare_context(ex_payload, now)
                /\ pc' = "exec_invoke"
                /\ UNCHANGED <<ex_state, ex_outcome, logged>>
    /\ UNCHANGED <<strategies, master_agent, op, ex_strategy_id, ex_payload,
                   ex_invocations, optVars, anVars>>

execute_strategy_invoke_retry ==
    /\ pc = "exec_invoke"
    /\ Len(ex_invocations) < 2
    /\ \/ \E r \in Results :
            /\ ex_invocations' = Append(ex_invocations,
                  [handler |-> executor(ex_strategy_id), context |-> ex_context,
                   raised |-> FALSE, value |-> r])
            /\ ex_outcome' = [status |-> "success", result |-> r]
            /\ ex_state' = "success"
            /\ pc' = "exec_done"
            /\ UNCHANGED logged
       \/ \E kind \in RawErrors :
            /\ ex_invocations' = Append(ex_invocations,
                  [handler |-> executor(ex_strategy_id), context |-> ex_context,
                   raised |-> TRUE, value |-> kind])
            /\ logged' = Append(logged, <<"Error executing strategy", ex_strategy_id, kind>>)
            /\ IF Len(ex_invocations) = 0
               THEN UNCHANGED <<ex_outcome, ex_state, pc>>
               ELSE /\ ex_outcome' = execute_strategy_except(ex_strategy_id,
                                        Raised(kind, <<"handler failed">>))
                    /\ ex_state' = "failed"
                    /\ pc' = "exec_done"
    /\ UNCHANGED <<strategies, master_agent, op, ex_strategy_id, ex_payload, ex_now,
                   ex_context, optVars, anVars>>

\* lines 46-52: call the bound executor; return the envelope or wrap the failure
execute_strategy_invoke ==
    /\ pc = "exec_invoke"
    /\ \/ \E r \in Results :
            /\ ex_invocations' = Append(ex_invocations,
                  [handler |-> executor(ex_strategy_id), context |-> ex_context,
                   raised |-> FALSE, value |-> r])
            /\ ex_outcome' = [status |-> "success", result |-> r]
            /\ ex_state' = "success"
            /\ UNCHANGED logged
       \/ \E kind \in RawErrors :
            /\ ex_invocations' = Append(ex_invocations,
                  [handler |-> executor(ex_strategy_id), context |-> ex_context,
                   raised |-> TRUE, value |-> kind])
            /\ logged' = Append(logged, <<"Error executing strategy", ex_strategy_id, kind>>)
            /\ ex_outcome' = execute_strategy_except(ex_strategy_id,
                                Raised(kind, <<"handler failed">>))
            /\ ex_state' = "failed"
    /\ pc' = "exec_done"
    /\ UNCHANGED <<strategies, master_agent, op, ex_strategy_id, ex_payload, ex_now,
                   ex_context, optVars, anVars>>

\* ---- MonetizationOptimizer.optimize_revenue ----

optimize_revenue_call(strategy_id, payload) ==
    /\ pc = "idle"
    /\ op' = "optimize"
    /\ pc' = "opt_validate"
    /\ opt_state' = "pending"
    /\ opt_strategy_id' = strategy_id
    /\ opt_payload' = payload
    /\ optimized_params' = EmptyMap
    /\ opt_events' = <<>>
    /\ opt_outcome' = NoOutcome
    /\ logged' = <<>>
    /\ UNCHANGED <<strategies, master_agent, exVars, anVars>>

\* lines 37-38
optimize_revenue_validate ==
    /\ pc = "opt_validate"
    /\ opt_events' = Append(opt_events,
          [step |-> "validate", raised |-> ~_is_valid_payload(opt_payload)])
    /\ IF ~_is_valid_payload(opt_payload)
       THEN LET e == Raised(InvalidPayloadError, <<"Invalid payload provided">>)
            IN  /\ logged' = Append(logged, <<"Error during revenue optimization", e.kind>>)
                /\ opt_outcome' = optimize_revenue_except(e)
                /\ opt_state' = "failed"
                /\ pc' = "opt_done"
       ELSE /\ pc' = "opt_predict"
            /\ UNCHANGED <<opt_outcome, opt_state, logged>>
    /\ UNCHANGED <<strategies, master_agent, op, opt_strategy_id, opt_payload,
                   optimized_params, exVars, anVars>>

\* line 41: self.pricing_model.predict_optimal_prices(payload)
optimize_revenue_predict ==
    /\ pc = "opt_predict"
    /\ \/ \E params \in OptimizedParams :
            /\ optimized_params' = params
            /\ opt_events' = Append(opt_events, [step |-> "predict", raised |-> FALSE])
            /\ pc' = "opt_dispatch"
            /\ UNCHANGED <<opt_outcome, opt_state, logged>>
       \/ \E kind \in RawErrors :
            /\ opt_events' = Append(opt_events, [step |-> "predict", raised |-> TRUE])
            /\ logged' = Append(logged, <<"Error during revenue optimization", kind>>)
            /\ opt_outcome' = optimize_revenue_except(Raised(kind, <<"pricing failed">>))
            /\ opt_state' = "failed"
            /\ pc' = "opt_done"
            /\ UNCHANGED optimized_params
    /\ UNCHANGED <<strategies, master_agent, op, opt_strategy_id, opt_payload,
                   exVars, anVars>>

\* line 44: self.master_agent.execute_strategy(strategy_id, optimized_params)
optimize_revenue_dispatch ==
    /\ pc = "opt_dispatch"
    /\ IF master_agent = "None"
       THEN LET e == Raised(AttributeError, <<"'NoneType' object has no attribute">>)
            IN  /\ opt_events' = Append(opt_events, [step |-> "dispatch", raised |-> TRUE])
                /\ logged' = Append(logged, <<"Error during revenue optimization", e.kind>>)
                /\ opt_outcome' = optimize_revenue_except(e)
                /\ opt_state' = "failed"
                /\ pc' = "opt_done"
                /\ UNCHANGED exVars
       ELSE LET args == dispatch_args(opt_strategy_id, opt_payload, optimized_params)
            IN  /\ opt_events' = Append(opt_events, [step |-> "dispatch", raised |-> FALSE])
                /\ execute_strategy_enter(args[1], args[2])
                /\ pc' = "exec_validate"
                /\ UNCHANGED <<opt_outcome, opt_state, logged>>
    /\ UNCHANGED <<strategies, master_agent, op, opt_strategy_id, opt_payload,
                   optimized_params, anVars>>

\* lines 44-50: the dispatcher call returns into optimize_revenue
optimize_revenue_resume ==
    /\ pc = "exec_done"
    /\ op = "optimize"
    /\ IF ex_outcome.status = "success"
       THEN /\ opt_outcome' = [status |-> "success", result |-> ex_outcome]
            /\ opt_state' = "success"
            /\ UNCHANGED logged
       ELSE /\ logged' = Append(logged, <<"Error during revenue optimization", ex_outcome.kind>>)
            /\ opt_outcome' = optimize_revenue_except(ex_outcome)
            /\ opt_state' = "failed"
    /\ pc' = "opt_done"
    /\ UNCHANGED <<strategies, master_agent, op, opt_strategy_id, opt_payload,
                   optimized_params, opt_events, exVars, anVars>>

\* ---- RevenueAnalytics.analyze_revenue_trends ----

analyze_revenue_trends_call(data) ==
    /\ pc = "idle"
    /\ op' = "analyze"
    /\ pc' = "an_transform"
    /\ an_state' = "pending"
    /\ an_data' = data
    /\ an_events' = <<>>
    /\ an_outcome' = NoOutcome
    /\ logged' = <<>>
    /\ UNCHANGED <<strategies, master_agent, exVars, optVars>>

\* line 30: self.data_processor.transform(data)
analyze_revenue_trends_transform ==
    /\ pc = "an_transform"
    /\ \/ /\ an_events' = Append(an_events, [step |-> "transform", raised |-> FALSE])
          /\ pc' = "an_compute"
          /\ UNCHANGED <<an_outcome, an_state, logged>>
       \/ \E kind \in RawErrors :
            /\ an_events' = Append(an_events, [step |-> "transform", raised |-> TRUE])
            /\ logged' = Append(logged, <<"Error analyzing revenue trends", kind>>)
            /\ an_outcome' = analyze_except(Raised(kind, <<"transform failed">>))
            /\ an_state' = "failed"
            /\ pc' = "an_done"
    /\ UNCHANGED <<strategies, master_agent, op, an_data, exVars, optVars>>

\* lines 33-39: self.metrics_collector.compute(processed_data), then the insights
analyze_revenue_trends_compute ==
    /\ pc = "an_compute"
    /\ \/ /\ an_events' = Append(an_events, [step |-> "compute", raised |-> FALSE])
          /\ an_outcome' = [status |-> "success", analysis |-> _generate_insights("metrics")]
          /\ an_state' = "success"
          /\ UNCHANGED logged
       \/ \E kind \in RawErrors :
            /\ an_events' = Append(an_events, [step |-> "compute", raised |-> TRUE])
            /\ logged' = Append(logged, <<"Error analyzing revenue trends", kind>>)
            /\ an_outcome' = analyze_except(Raised(kind, <<"compute failed">>))
            /\ an_state' = "failed"
    /\ pc' = "an_done"
    /\ UNCHANGED <<strategies, master_agent, op, an_data, exVars, optVars>>

\* ---- the caller receives the outcome; the per-call records are discarded ----

Return ==
    /\ \/ pc = "exec_done" /\ op = "execute"
       \/ pc = "opt_done"
       \/ pc = "an_done"
    /\ op' = "none"
    /\ pc' = "idle"
    /\ ex_state' = "none"
    /\ ex_strategy_id' = "none"
    /\ ex_payload' = EmptyMap
    /\ ex_now' = 0
    /\ ex_context' = EmptyMap
    /\ ex_invocations' = <<>>
    /\ ex_outcome' = NoOutcome
    /\ opt_state' = "none"
    /\ opt_strategy_id' = "none"
    /\ opt_payload' = EmptyMap
    /\ optimized_params' = EmptyMap
    /\ opt_events' = <<>>
    /\ opt_outcome' = NoOutcome
    /\ an_state' = "none"
    /\ an_data' = EmptyMap
    /\ an_events' = <<>>
    /\ an_outcome' = NoOutcome
    /\ logged' = <<>>
    /\ UNCHANGED <<strategies, master_agent>>

Next ==
    \/ \E strategy_id \in StrategyIds, handler \in Handlers : register(strategy_id, handler)
    \/ attach_master_agent
    \/ \E strategy_id \in StrategyIds, payload \in Payloads :
          execute_strategy_call(strategy_id, payload)
    \/ execute_strategy_validate
    \/ execute_strategy_invoke
    \/ \E strategy_id \in StrategyIds, payload \in Payloads :
          optimize_revenue_call(strategy_id, payload)
    \/ optimize_revenue_validate
    \/ optimize_revenue_predict
    \/ optimize_revenue_dispatch
    \/ optimize_revenue_resume
    \/ \E data \in RawData : analyze_revenue_trends_call(data)
    \/ analyze_revenue_trends_transform
    \/ analyze_revenue_trends_compute
    \/ Return

Spec == Init /\ [][Next]_vars

\* ======================= claims =======================

Terminal == {"success", "failed"}

\* c is what build(p) must produce when the clock reads now
IsContextOf(c, p, now) ==
    /\ DOMAIN c = DOMAIN p \cup {"timestamp", "system_id"}
    /\ \A k \in DOMAIN p : c[k] = p[k]
    /\ "timestamp" \notin DOMAIN p => c["timestamp"] = "T" \o ToString(now)
    /\ "system_id" \notin DOMAIN p => c["system_id"] = "default-system-id"

\* C1 (as stated): a finished execute call for an unregistered strategy id has
\* failed with StrategyNotFoundError and has invoked no handler.
C1_UnregisteredFailsWithStrategyNotFound ==
    (ex_state \in Terminal /\ ex_strategy_id \notin DOMAIN strategies) =>
        /\ ex_outcome.status = "raised"
        /\ ex_outcome.kind = StrategyNotFoundError
        /\ ex_invocations = <<>>

\* C2: when the handler of a registered strategy raises, the caller of execute
\* receives an IntegrationError whose message names the strategy id of the
\* call, whatever the type of the exception the handler raised.
C2_HandlerFailureIsIntegrationError ==
    (ex_state \in Terminal /\ ex_invocations # <<>>
        /\ ex_invocations[Len(ex_invocations)].raised) =>
        /\ ex_outcome.status = "raised"
        /\ ex_outcome.kind = IntegrationError
        /\ \E i \in DOMAIN ex_outcome.message : ex_outcome.message[i] = ex_strategy_id

C2_Witness ==
    /\ op = "execute"
    /\ pc = "exec_done"
    /\ ex_strategy_id \in DOMAIN strategies
    /\ Len(ex_invocations) = 1
    /\ ex_invocations[1].raised
    /\ ex_invocations[1].value = "RuntimeError"

\* C3 (as stated): a finished optimizeRevenue call has failed with
\* InvalidPayloadError exactly when its payload lacks revenue_target or
\* time_frame.
C3_InvalidPayloadSurfacesUnwrapped ==
    opt_state \in Terminal =>
        ((opt_outcome.status = "raised" /\ opt_outcome.kind = InvalidPayloadError)
            <=> ("revenue_target" \notin DOMAIN opt_payload
                    \/ "time_frame" \notin DOMAIN opt_payload))

\* C4: once the context of a call is built it has exactly the payload's keys
\* plus timestamp and system_id, every payload key carries the payload's value,
\* and timestamp / system_id carry the clock / identity values only when the
\* payload does not supply them.
C4_ContextIsPayloadOverCommon ==
    (pc \in {"exec_invoke", "exec_done"} /\ ex_now # 0) =>
        IsContextOf(ex_context, ex_payload, ex_now)

C4_Witness ==
    /\ pc = "exec_invoke"
    /\ "system_id" \in DOMAIN ex_payload
    /\ "timestamp" \notin DOMAIN ex_payload
    /\ ex_context["system_id"] = ex_payload["system_id"]
    /\ ex_now = 2
    /\ ex_context["timestamp"] = "T2"

\* C5: a finished execute call for a registered strategy id has invoked the
\* handler bound to that id, once, with the context built from the call's
\* payload; when that handler returned, the caller receives
\* {status: success, result} with result the value the handler returned.
C5_SuccessReturnsHandlerResult ==
    (ex_state \in Terminal /\ ex_strategy_id \in DOMAIN strategies) =>
        /\ Len(ex_invocations) = 1
        /\ ex_invocations[1].handler = strategies[ex_strategy_id]["executor"]
        /\ IsContextOf(ex_invocations[1].context, ex_payload, ex_now)
        /\ ~ex_invocations[1].raised =>
                ex_outcome = [status |-> "success", result |-> ex_invocations[1].value]

C5_Witness ==
    /\ op = "execute"
    /\ pc = "exec_done"
    /\ DOMAIN strategies = StrategyIds
    /\ strategies["discount_v1"]["executor"] # strategies["missing_id"]["executor"]
    /\ ex_state = "success"
    /\ ex_outcome = [status |-> "success", result |-> "r2"]
    /\ "revenue_target" \in DOMAIN ex_payload

\* C6: a finished optimizeRevenue call whose payload has both required fields
\* and whose pricing call raised, or whose dispatcher call failed, has failed
\* with IntegrationError.
C6_DownstreamFailureIsIntegrationError ==
    (/\ opt_state \in Terminal
     /\ {"revenue_target", "time_frame"} \subseteq DOMAIN opt_payload
     /\ \E i \in DOMAIN opt_events :
            \/ opt_events[i].step = "predict" /\ opt_events[i].raised
            \/ opt_events[i].step = "dispatch"
                /\ (opt_events[i].raised \/ ex_state = "failed")) =>
        /\ opt_outcome.status = "raised"
        /\ opt_outcome.kind = IntegrationError

C6_Witness ==
    /\ pc = "opt_done"
    /\ Len(opt_events) = 3
    /\ ~opt_events[3].raised
    /\ ex_state = "failed"
    /\ ex_invocations # <<>>
    /\ opt_outcome.status = "raised"

\* C7: whatever the inputs and the collaborators' outcomes, a finished public
\* operation hands its caller a success envelope or one of the five error
\* kinds.
C7_OnlyClassifiedOutcomes ==
    LET Classified(o) ==
            \/ o.status = "success"
            \/ o.status = "raised"
                /\ o.kind \in {StrategyNotFoundError, DuplicateStrategyError,
                               InvalidPayloadError, IntegrationError, AnalysisError}
    IN  /\ ex_state \in Terminal => Classified(ex_outcome)
        /\ opt_state \in Terminal => Classified(opt_outcome)
        /\ an_state \in Terminal => Classified(an_outcome)

C7_Witness ==
    /\ pc = "opt_done"
    /\ Len(opt_events) = 2
    /\ opt_events[2].raised
    /\ opt_outcome.status = "raised"

\* C8: a finished analyzeTrends call has failed with AnalysisError when
\* transform or compute raised, and otherwise returned {status: success,
\* analysis}.
C8_AnalysisNormalised ==
    an_state \in Terminal =>
        IF \E i \in DOMAIN an_events : an_events[i].raised
        THEN an_outcome.status = "raised" /\ an_outcome.kind = AnalysisError
        ELSE /\ an_outcome.status = "success"
             /\ DOMAIN an_outcome = {"status", "analysis"}
             /\ DOMAIN an_outcome.analysis = {"trend", "recommendation"}

C8_Witness ==
    /\ pc = "an_done"
    /\ Len(an_events) = 2
    /\ an_events[2].raised
    /\ an_state = "failed"

\* C9: an execute call goes from pending to one terminal state and keeps that
\* state and outcome until the call is over; it invokes the handler at most
\* once.  The same for optimizeRevenue and the pricing collaborator.
C9_NoRetrySingleTerminal ==
    [][ /\ ex_state = "pending" => ex_state' \in {"pending"} \cup Terminal
        /\ ex_state \in Terminal =>
              \/ ex_state' = ex_state /\ ex_outcome' = ex_outcome
                    /\ ex_invocations' = ex_invocations
              \/ pc' = "idle" /\ ex_state' = "none"
        /\ Len(ex_invocations') <= 1
        /\ (ex_invocations # <<>> /\ ex_invocations[1].raised) => ex_state \in Terminal
        /\ opt_state = "pending" => opt_state' \in {"pending"} \cup Terminal
        /\ opt_state \in Terminal =>
              \/ opt_state' = opt_state /\ opt_outcome' = opt_outcome
              \/ pc' = "idle" /\ opt_state' = "none"
        /\ Cardinality({i \in DOMAIN opt_events' : opt_events'[i].step = "predict"}) <= 1
      ]_vars

C9_Witness ==
    /\ pc = "opt_done"
    /\ opt_state = "failed"
    /\ ex_state = "failed"
    /\ Len(ex_invocations) = 1
    /\ ex_invocations[1].raised

\* C10: the steps of an optimizeRevenue call are validate, pricing call,
\* dispatch, in that order; an invalid payload stops before the pricing call, a
\* failed pricing call stops before the dispatcher, and the dispatcher gets the
\* call's strategy id with the parameters the pricing collaborator returned.
C10_OptimizeStepOrder ==
    /\ Len(opt_events) <= 3
    /\ \A i \in DOMAIN opt_events :
            opt_events[i].step = <<"validate", "predict", "dispatch">>[i]
    /\ \A i \in DOMAIN opt_events :
            opt_events[i].raised => (i = Len(opt_events) /\ opt_state = "failed")
    /\ (opt_state # "none" /\ Len(opt_events) >= 1
            /\ ~({"revenue_target", "time_frame"} \subseteq DOMAIN opt_payload)) =>
            Len(opt_events) = 1 /\ opt_events[1].raised
    /\ (op = "optimize" /\ (Len(opt_events) < 3 \/ opt_events[Len(opt_events)].raised)) =>
            ex_state = "none" /\ ex_invocations = <<>>
    /\ (op = "optimize" /\ ex_state # "none") =>
            /\ ex_strategy_id = opt_strategy_id
            /\ ex_payload = optimized_params

C10_Witness ==
    /\ op = "optimize"
    /\ pc = "exec_invoke"
    /\ opt_payload # optimized_params
    /\ "price" \in DOMAIN optimized_params
    /\ ex_context["price"] = optimized_params["price"]

====
